---- MODULE Spec2Model ----
(***************************************************************************)
(* The API server of bluesky-later (api/index.ts): the posts and           *)
(* credentials tables, the CRUD handlers, and the cron endpoint            *)
(* POST /api/cron/check-posts that publishes the due posts.                *)
(*                                                                         *)
(* Every handler is an async function: each `await pool.query(...)` and    *)
(* each `await agent.*(...)` is one step, and the steps of the requests in *)
(* flight interleave.                                                      *)
(***************************************************************************)
EXTENDS Integers, Sequences, FiniteSets, TLC

(* ------------------------------ bounds --------------------------------- *)

\* Number of rows the posts table ever receives (ids 1..MaxPosts).
MaxPosts == 2

\* The clock runs over 0..MaxTime.
MaxTime == 1

\* Number of rows the posts table receives where the cron service runs
\* forever, and where invocations overlap.
MaxBacklog == 1

\* Number of store objects the browser constructs.
MaxInstances == 3

\* Number of rows of the posts tables a query is applied to.
MaxRows == 3

(* ----------------------------- constants ------------------------------- *)

\* The cron invocations that may be in flight at the same time.
Runs == {1, 2}

\* SQL NULL / a column left out of an INSERT.
Null == "null"

\* process.env.CRON_SECRET when the variable is not set.
Undefined == "undefined"

\* req.headers.authorization when the header is missing.
NoHeader == "undefined-header"

\* The Authorization headers a caller presents.
Headers == {NoHeader, "Bearer s3cret", "Bearer undefined"}

\* The scheduled times of the drafts: at the start of the clock, or one tick later.
ScheduleTimes == {0, 1}

\* The request bodies of POST /api/posts the cron specification draws from.
CronDrafts ==
    { [content |-> "hello", scheduledFor |-> t, url |-> Null, image |-> Null]
        : t \in ScheduleTimes }

\* The drafts the browser hands to createPost: with or without a link, with or
\* without an image.
StoreDrafts ==
    { [content |-> "hello", scheduledFor |-> t, status |-> "pending", url |-> u, image |-> i]
        : t \in ScheduleTimes, u \in {Null, "https://example.com"}, i \in {Null, "image-1"} }

\* The credentials a user may store: no two of them are equal, and two of
\* them differ in both fields.
StoreCreds ==
    { [identifier |-> i, password |-> pw] : i \in {"alice", "bob"}, pw \in {"pw1", "pw2"} }

\* The browsers (tabs) that may have a POST /api/credentials in flight at once.
Browsers == {1, 2, 3}

\* The request bodies of POST /api/credentials the cron specification draws from.
CronCreds == { [identifier |-> "alice", password |-> "pw1"] }

\* What a call to the social network does: resolves, rejects with an Error,
\* or rejects with a value that is not an Error.
NetOutcomes == {"ok", "error", "nonerror"}

\* agent.login rejects with an Error (the client library's XRPCError).
LoginOutcomes == {"ok", "error"}

LoginErrorMessage == "Login failed"
PostErrorMessage == "Post failed"
TypeErrorMessage == "Cannot read properties of undefined (reading 'identifier')"

(* ------------------------------- state --------------------------------- *)

VARIABLES
    posts,       \* the posts table: id -> row
    nextId,      \* the SERIAL sequence of posts.id
    credentials, \* the credentials table: a sequence of rows
    setReq,      \* POST /api/credentials in flight, between its DELETE and its INSERT
    now,         \* NOW()
    cronSecret,  \* process.env.CRON_SECRET
    run,         \* the cron invocations: run id -> handler state
    remote,      \* the last call on the RemoteDB client and what it gave the caller
    local,       \* the embedded store (LocalDB) and the last call on it
    payload      \* the last call of getPostData, fetchUrlMetadata or createDatabase,
                 \* and what it gave the caller

\* The state of the browser side: the store clients and the payload builder.
clientVars == <<remote, local, payload>>

vars == <<posts, nextId, credentials, setReq, now, cronSecret, run, clientVars>>

\* No exception in flight.
NoThrow == [kind |-> "none", message |-> ""]

\* A handler slot with no request in it.
IdleRun ==
    [ pc       |-> "idle",
      header   |-> NoHeader,
      response |-> 0,
      batch    |-> <<>>,     \* rows: posts
      i        |-> 0,        \* position of `post` in posts
      credRows |-> <<>>,     \* rows of SELECT * FROM credentials LIMIT 1
      thrown   |-> NoThrow,  \* the value caught by catch (error: unknown)
      due      |-> {},       \* history: ids pending and due when the SELECT ran
      log      |-> <<>> ]    \* history: the store and network calls of the run

\* The JavaScript values null and undefined, as a caller receives them.
JNull == [type |-> "null"]
JUndefined == [type |-> "undefined"]

\* No call made yet on a client-side object.
NoCall ==
    [ op |-> "none", arg |-> << >>, kind |-> "none", value |-> JUndefined,
      message |-> "", status |-> "" ]

\* The payload builder before its first call: the call, the credentials it
\* read, and the network calls it made.
NoPayload == [call |-> NoCall, creds |-> JUndefined, network |-> << >>]

\* The embedded store of a browser that has stored nothing yet.
EmptyLocal == [posts |-> << >>, nextId |-> 1, credentials |-> << >>, call |-> NoCall]

Init ==
    /\ posts = << >>
    /\ nextId = 1
    /\ credentials = << >>
    /\ setReq = << >>
    /\ now = 0
    /\ cronSecret = "s3cret"
    /\ run = [r \in Runs |-> IdleRun]
    /\ remote = NoCall
    /\ local = EmptyLocal
    /\ payload = NoPayload

(* ----------------------------- helpers --------------------------------- *)

\* The ids of a set, as a sequence in ascending order.
RECURSIVE SortedSeq(_)
SortedSeq(S) ==
    IF S = {} THEN << >>
    ELSE LET m == CHOOSE x \in S : \A y \in S : x <= y
         IN  <<m>> \o SortedSeq(S \ {m})

\* `Bearer ${process.env.CRON_SECRET}`: an unset variable prints as "undefined".
BearerOf(secret) == "Bearer " \o (IF secret = Undefined THEN "undefined" ELSE secret)

\* Mutant: only the presence of the header is checked.
Unauthorized_MissingOnly(header, secret) == header = NoHeader

\* authHeader !== `Bearer ${process.env.CRON_SECRET}`
Unauthorized(header, secret) == header # BearerOf(secret)

\* WHERE status = 'pending' AND scheduled_for <= NOW()
IsPendingDue(row, t) == row.status = "pending" /\ row.scheduled_for <= t

\* Mutant: the SELECT without `AND scheduled_for <= NOW()`.
SelectPending_NoTimeFilter(table, t) ==
    LET ids == {id \in DOMAIN table : table[id].status = "pending"}
        ord == SortedSeq(ids)
    IN  [k \in 1..Len(ord) |-> table[ord[k]]]

\* SELECT * FROM posts WHERE status = $1 AND scheduled_for <= NOW()
SelectPendingDue(table, t) ==
    LET ids == {id \in DOMAIN table : IsPendingDue(table[id], t)}
        ord == SortedSeq(ids)
    IN  [k \in 1..Len(ord) |-> table[ord[k]]]

\* Mutant: the message of the thrown Error is dropped.
ErrorMessageOf_AlwaysUnknown(thrown) == "Unknown error"

\* error instanceof Error ? error.message : "Unknown error"
ErrorMessageOf(thrown) ==
    IF thrown.kind = "Error" THEN thrown.message ELSE "Unknown error"

\* Mutant: the UPDATE matches no row.
UpdateStatus_Lost(table, id, status) == table

\* UPDATE posts SET status = $1 WHERE id = $2
UpdateStatus(table, id, status) ==
    IF id \in DOMAIN table
    THEN [table EXCEPT ![id] = [@ EXCEPT !.status = status]]
    ELSE table

\* Mutant: the UPDATE has no WHERE clause.
UpdateStatusError_NoWhere(table, id, status, message) ==
    [k \in DOMAIN table |-> [table[k] EXCEPT !.status = status, !.error = message]]

\* UPDATE posts SET status = $1, error = $2 WHERE id = $3
UpdateStatusError(table, id, status, message) ==
    IF id \in DOMAIN table
    THEN [table EXCEPT ![id] = [@ EXCEPT !.status = status, !.error = message]]
    ELSE table

\* A call recorded in the history of a run.
Event(op, id, res) == [op |-> op, id |-> id, res |-> res]

\* The record handed to agent.post for a row: { text: post.content }
PostRecord(post) == [text |-> post.content]

\* A publish call recorded in the history of a run, with the record submitted.
Submitted(post, res) ==
    [op |-> "post", id |-> post.id, res |-> res, record |-> PostRecord(post)]

\* Mutant: the first post that fails ends the loop.
NextPost_FailFast(rr) ==
    IF rr.i < Len(rr.batch) /\ rr.thrown.kind = "none"
    THEN [rr EXCEPT !.pc = "creds", !.i = rr.i + 1, !.credRows = << >>,
                    !.thrown = [kind |-> "none", message |-> ""]]
    ELSE [rr EXCEPT !.pc = "respond", !.credRows = << >>,
                    !.thrown = [kind |-> "none", message |-> ""]]

\* The handler state after the UPDATE of one post: the next post, or res.json.
NextPost(rr) ==
    IF rr.i < Len(rr.batch)
    THEN [rr EXCEPT !.pc = "creds", !.i = rr.i + 1, !.credRows = << >>,
                    !.thrown = NoThrow]
    ELSE [rr EXCEPT !.pc = "respond", !.credRows = << >>, !.thrown = NoThrow]

\* Mutant: the agent logs in once, before the loop looks at the rows.
AfterSelect_LoginFirst(rr, rows) ==
    IF Len(rows) = 0
    THEN [rr EXCEPT !.pc = "respond", !.batch = rows,
                    !.log = Append(@, [op |-> "login", id |-> 0, res |-> "ok"])]
    ELSE [rr EXCEPT !.pc = "creds", !.batch = rows, !.i = 1]

\* The handler state once the SELECT of the due posts has returned `rows`.
AfterSelect(rr, rows) ==
    IF Len(rows) = 0
    THEN [rr EXCEPT !.pc = "respond", !.batch = rows]
    ELSE [rr EXCEPT !.pc = "creds", !.batch = rows, !.i = 1]

\* The value thrown by a rejected call to the social network.
Rejection(outcome, message) ==
    IF outcome = "error" THEN [kind |-> "Error", message |-> message]
    ELSE [kind |-> "other", message |-> ""]

(* ------------------------- the CRUD handlers --------------------------- *)

\* INSERT INTO posts (content, scheduled_for, status, image)
\*   VALUES ($1, $2, 'pending', $4) RETURNING *
\* with { content, scheduledFor, image } = req.body: error and url stay NULL,
\* created_at takes its default NOW().
InsertPost(table, id, body, t) ==
    (id :> [ id            |-> id,
             content       |-> body.content,
             scheduled_for |-> body.scheduledFor,
             status        |-> "pending",
             error         |-> Null,
             created_at    |-> t,
             url           |-> Null,
             image         |-> body.image ]) @@ table

\* DELETE FROM posts WHERE id = $1
DeleteRow(table, id) == [k \in DOMAIN table \ {id} |-> table[k]]

\* POST /api/posts: INSERT INTO posts (content, scheduled_for, status, image).
CreatePost(draft) ==
    /\ nextId <= MaxPosts
    /\ posts' = InsertPost(posts, nextId, draft, now)
    /\ nextId' = nextId + 1
    /\ UNCHANGED <<credentials, setReq, now, cronSecret, clientVars, run>>

\* DELETE /api/posts/:id
DeletePost(id) ==
    /\ id \in DOMAIN posts
    /\ posts' = DeleteRow(posts, id)
    /\ UNCHANGED <<nextId, credentials, setReq, now, cronSecret, clientVars, run>>

\* Mutant: the DELETE removes no row.
ClearCredentials_KeepRows(table) == table

\* DELETE FROM credentials
ClearCredentials(table) == << >>

\* INSERT INTO credentials (identifier, password) VALUES ($1, $2)
AddCredentials(table, creds) ==
    Append(table, [identifier |-> creds.identifier, password |-> creds.password])

\* POST /api/credentials, first statement: DELETE FROM credentials.
SetCredentialsDelete(creds) ==
    /\ credentials' = ClearCredentials(credentials)
    /\ setReq' = Append(setReq, creds)
    /\ UNCHANGED <<posts, nextId, now, cronSecret, clientVars, run>>

\* POST /api/credentials, second statement, of the k-th request in flight:
\* INSERT INTO credentials (identifier, password).
SetCredentialsInsert(k) ==
    /\ k \in DOMAIN setReq
    /\ credentials' = AddCredentials(credentials, setReq[k])
    /\ setReq' = [j \in 1..(Len(setReq) - 1) |-> IF j < k THEN setReq[j] ELSE setReq[j + 1]]
    /\ UNCHANGED <<posts, nextId, now, cronSecret, clientVars, run>>

\* DELETE /api/credentials
DeleteCredentials ==
    /\ credentials # << >>
    /\ credentials' = ClearCredentials(credentials)
    /\ UNCHANGED <<posts, nextId, setReq, now, cronSecret, clientVars, run>>

\* Time passes.
Tick ==
    /\ now < MaxTime
    /\ now' = now + 1
    /\ UNCHANGED <<posts, nextId, credentials, setReq, cronSecret, clientVars, run>>

(* --------------------------- the cron endpoint ------------------------- *)

\* The request arrives: the Authorization check, and 401 when it fails.
CronRequest(r, header) ==
    /\ run[r].pc = "idle"
    /\ run' = [run EXCEPT ![r] =
                 IF Unauthorized(header, cronSecret)
                 THEN [IdleRun EXCEPT !.pc = "done", !.header = header, !.response = 401]
                 ELSE [IdleRun EXCEPT !.pc = "select", !.header = header]]
    /\ UNCHANGED <<posts, nextId, credentials, setReq, now, cronSecret, clientVars>>

\* const { rows: posts } = await pool.query("SELECT * FROM posts WHERE ...")
CronSelect(r) ==
    /\ run[r].pc = "select"
    /\ LET rows == SelectPendingDue(posts, now)
           rr   == [run[r] EXCEPT
                      !.due = {id \in DOMAIN posts :
                                  /\ posts[id].status = "pending"
                                  /\ posts[id].scheduled_for <= now},
                      !.log = Append(@, Event("select", 0, "rows"))]
       IN  run' = [run EXCEPT ![r] = AfterSelect(rr, rows)]
    /\ UNCHANGED <<posts, nextId, credentials, setReq, now, cronSecret, clientVars>>

\* const { rows: [creds] } = await pool.query("SELECT * FROM credentials LIMIT 1");
\* with no row, creds is undefined and creds.identifier throws a TypeError.
CronGetCreds(r) ==
    /\ run[r].pc = "creds"
    /\ \E rows \in IF credentials = << >> THEN { << >> }
                   ELSE { <<credentials[k]>> : k \in DOMAIN credentials } :
         run' = [run EXCEPT ![r] =
                   IF Len(rows) = 0
                   THEN [@ EXCEPT !.pc = "catch", !.credRows = rows,
                                  !.thrown = [kind |-> "Error", message |-> TypeErrorMessage],
                                  !.log = Append(@, Event("creds", run[r].batch[run[r].i].id, "none"))]
                   ELSE [@ EXCEPT !.pc = "login", !.credRows = rows,
                                  !.log = Append(@, Event("creds", run[r].batch[run[r].i].id, "some"))]]
    /\ UNCHANGED <<posts, nextId, credentials, setReq, now, cronSecret, clientVars>>

\* Mutant: a rejected login is not thrown; the loop goes on to publish.
CronLogin_IgnoreRejection(r, outcome) ==
    /\ run[r].pc = "login"
    /\ run' = [run EXCEPT ![r] =
                 [@ EXCEPT !.pc = "post",
                           !.log = Append(@, Event("login", run[r].batch[run[r].i].id, outcome))]]
    /\ UNCHANGED <<posts, nextId, credentials, setReq, now, cronSecret, clientVars>>

\* await agent.login({ identifier: creds.identifier, password: creds.password })
CronLogin(r, outcome) ==
    /\ run[r].pc = "login"
    /\ run' = [run EXCEPT ![r] =
                 IF outcome = "ok"
                 THEN [@ EXCEPT !.pc = "post",
                                !.log = Append(@, Event("login", run[r].batch[run[r].i].id, outcome))]
                 ELSE [@ EXCEPT !.pc = "catch",
                                !.thrown = Rejection(outcome, LoginErrorMessage),
                                !.log = Append(@, Event("login", run[r].batch[run[r].i].id, outcome))]]
    /\ UNCHANGED <<posts, nextId, credentials, setReq, now, cronSecret, clientVars>>

\* Mutant: a rejected publish call is swallowed and the post is marked published.
CronPost_SwallowRejection(r, outcome) ==
    /\ run[r].pc = "post"
    /\ run' = [run EXCEPT ![r] =
                 [@ EXCEPT !.pc = "update",
                           !.log = Append(@, Submitted(run[r].batch[run[r].i], outcome))]]
    /\ UNCHANGED <<posts, nextId, credentials, setReq, now, cronSecret, clientVars>>

\* Mutant: the row is read again before the publish call, and a post that is
\* no longer pending is skipped.
CronPost_OnlyPending(r, outcome) ==
    /\ run[r].pc = "post"
    /\ LET id == run[r].batch[run[r].i].id
       IN  run' = [run EXCEPT ![r] =
                     IF id \in DOMAIN posts /\ posts[id].status # "pending"
                     THEN NextPost(@)
                     ELSE IF outcome = "ok"
                     THEN [@ EXCEPT !.pc = "update",
                                    !.log = Append(@, Submitted(run[r].batch[run[r].i], outcome))]
                     ELSE [@ EXCEPT !.pc = "catch",
                                    !.thrown = Rejection(outcome, PostErrorMessage),
                                    !.log = Append(@, Submitted(run[r].batch[run[r].i], outcome))]]
    /\ UNCHANGED <<posts, nextId, credentials, setReq, now, cronSecret, clientVars>>

\* await agent.post({ text: post.content })
CronPost(r, outcome) ==
    /\ run[r].pc = "post"
    /\ run' = [run EXCEPT ![r] =
                 IF outcome = "ok"
                 THEN [@ EXCEPT !.pc = "update",
                                !.log = Append(@, Submitted(run[r].batch[run[r].i], outcome))]
                 ELSE [@ EXCEPT !.pc = "catch",
                                !.thrown = Rejection(outcome, PostErrorMessage),
                                !.log = Append(@, Submitted(run[r].batch[run[r].i], outcome))]]
    /\ UNCHANGED <<posts, nextId, credentials, setReq, now, cronSecret, clientVars>>

\* await pool.query("UPDATE posts SET status = $1 WHERE id = $2", ["published", post.id])
CronMarkPublished(r) ==
    /\ run[r].pc = "update"
    /\ LET post == run[r].batch[run[r].i]
       IN  /\ posts' = UpdateStatus(posts, post.id, "published")
           /\ run' = [run EXCEPT ![r] =
                        NextPost([@ EXCEPT !.log = Append(@, Event("update", post.id, "published"))])]
    /\ UNCHANGED <<nextId, credentials, setReq, now, cronSecret, clientVars>>

\* catch (error): UPDATE posts SET status = 'failed', error = errorMessage WHERE id = post.id
CronMarkFailed(r) ==
    /\ run[r].pc = "catch"
    /\ LET post == run[r].batch[run[r].i]
       IN  /\ posts' = UpdateStatusError(posts, post.id, "failed", ErrorMessageOf(run[r].thrown))
           /\ run' = [run EXCEPT ![r] =
                        NextPost([@ EXCEPT !.log = Append(@, Event("update", post.id, "failed"))])]
    /\ UNCHANGED <<nextId, credentials, setReq, now, cronSecret, clientVars>>

\* res.json({ success: true })
CronRespond(r) ==
    /\ run[r].pc = "respond"
    /\ run' = [run EXCEPT ![r] = [@ EXCEPT !.pc = "done", !.response = 200]]
    /\ UNCHANGED <<posts, nextId, credentials, setReq, now, cronSecret, clientVars>>

\* The caller has its response; the next invocation can arrive.
CronReturn(r) ==
    /\ run[r].pc = "done"
    /\ run' = [run EXCEPT ![r] = IdleRun]
    /\ UNCHANGED <<posts, nextId, credentials, setReq, now, cronSecret, clientVars>>

\* Mutant: the interruption rolls back what the run has written.
CronInterrupt_Rollback(r) ==
    /\ run[r].pc \notin {"idle", "interrupted"}
    /\ run' = [run EXCEPT ![r] = [@ EXCEPT !.pc = "interrupted"]]
    /\ posts' = [id \in DOMAIN posts |->
                    IF \E k \in DOMAIN run[r].batch : run[r].batch[k].id = id
                    THEN [posts[id] EXCEPT !.status = "pending", !.error = Null]
                    ELSE posts[id]]
    /\ UNCHANGED <<nextId, credentials, setReq, now, cronSecret, clientVars>>

\* The API process stops while the handler waits at an await: the handler
\* never resumes, and the tables, which are in the database, stay as they
\* are. The slot keeps what the handler had done, as history.
CronInterrupt(r) ==
    /\ run[r].pc \notin {"idle", "interrupted"}
    /\ run' = [run EXCEPT ![r] = [@ EXCEPT !.pc = "interrupted"]]
    /\ UNCHANGED <<posts, nextId, credentials, setReq, now, cronSecret, clientVars>>

\* The run after an interrupted one has its response: the history of both is
\* dropped.
CronRecover ==
    /\ run[1].pc = "interrupted"
    /\ run[2].pc = "done"
    /\ run' = [r \in Runs |-> IdleRun]
    /\ UNCHANGED <<posts, nextId, credentials, setReq, now, cronSecret, clientVars>>

(* --------------------------- specifications ---------------------------- *)

\* The one browser of the deployment sets its credentials: no other
\* POST /api/credentials is in flight when the request arrives.
SingleSetCredentials(creds) ==
    /\ setReq = << >>
    /\ SetCredentialsDelete(creds)

\* The steps of the other handlers of the store, and of the clock.
StoreStep ==
    \/ \E d \in CronDrafts : CreatePost(d)
    \/ \E c \in CronCreds : SingleSetCredentials(c)
    \/ \E k \in DOMAIN setReq : SetCredentialsInsert(k)
    \/ DeleteCredentials
    \/ Tick

\* The steps of a cron invocation after its request was accepted.
CronStep(r) ==
    \/ CronSelect(r)
    \/ CronGetCreds(r)
    \/ \E o \in LoginOutcomes : CronLogin(r, o)
    \/ \E o \in NetOutcomes : CronPost(r, o)
    \/ CronMarkPublished(r)
    \/ CronMarkFailed(r)
    \/ CronRespond(r)
    \/ CronReturn(r)

\* A single worker: a cron request arrives only when no other is in flight
\* (the cron service's loop: curl, wait for the response, sleep 60).
SingleCronRequest(header) ==
    /\ \A q \in Runs : run[q].pc = "idle"
    /\ CronRequest(1, header)

Next ==
    \/ StoreStep
    \/ \E h \in Headers : SingleCronRequest(h)
    \/ CronStep(1)

Spec == Init /\ [][Next]_vars

\* The trigger of the self-hosted deployment: the cron service presents the
\* configured secret, in a loop that never ends (curl, sleep 60, again), and
\* the server runs every handler it has started to its end.
CronTrigger == SingleCronRequest(BearerOf(cronSecret))

Fairness ==
    /\ SF_vars(CronTrigger)
    /\ WF_vars(CronStep(1))

\* The steps of the other handlers and of the clock, with at most MaxBacklog
\* posts created.
BacklogStep ==
    \/ \E d \in CronDrafts : Len(posts) < MaxBacklog /\ CreatePost(d)
    \/ \E c \in CronCreds : SingleSetCredentials(c)
    \/ \E k \in DOMAIN setReq : SetCredentialsInsert(k)
    \/ DeleteCredentials
    \/ Tick

\* The single worker.
NextLive ==
    \/ BacklogStep
    \/ \E h \in Headers : SingleCronRequest(h)
    \/ CronStep(1)

SpecLive == Init /\ [][NextLive]_vars /\ Fairness

\* Any caller may hit the endpoint while a run is in flight: invocations overlap.
NextOverlap ==
    \/ BacklogStep
    \/ \E r \in Runs, h \in Headers : CronRequest(r, h)
    \/ \E r \in Runs : CronStep(r)

SpecOverlap == Init /\ [][NextOverlap]_vars

\* The store's own handlers, with no cron invocation.
NextStore ==
    \/ StoreStep
    \/ \E id \in 1..MaxPosts : DeletePost(id)

SpecStore == Init /\ [][NextStore]_vars

(* ----------------------- the RemoteDB client --------------------------- *)

\* What answers the client's fetch: the API server, or something in front of
\* it that answers with a status that is not OK.
Transport == {"OK", "Bad Gateway"}

\* A Date in a JSON text: JSON.stringify writes its ISO string, and
\* response.json() leaves the string a string.
ISO(t) == [iso |-> t]

\* res.json(row): the columns keep their names, the timestamps become strings.
RowJSON(row) == [row EXCEPT !.scheduled_for = ISO(@), !.created_at = ISO(@)]

\* res.json(result.rows)
RowsJSON(rows) == [type |-> "array", items |-> [k \in DOMAIN rows |-> RowJSON(rows[k])]]

\* A response with status 200 and a JSON body.
OkJson(body) == [ok |-> TRUE, statusText |-> "OK", body |-> body]

\* res.json(undefined): status 200 and an empty body.
OkEmpty == [ok |-> TRUE, statusText |-> "OK", body |-> [type |-> "empty"]]

\* A response whose status is not in the range 200-299.
NotOk(statusText) == [ok |-> FALSE, statusText |-> statusText, body |-> [type |-> "html"]]

\* res.json({ success: true })
Success == [type |-> "object", fields |-> [success |-> TRUE]]

\* The caller's call returned a value / threw an Error.
Returned(op, arg, v) ==
    [NoCall EXCEPT !.op = op, !.arg = arg, !.kind = "return", !.value = v]
Threw(op, arg, msg) ==
    [NoCall EXCEPT !.op = op, !.arg = arg, !.kind = "throw", !.message = msg]

\* `API Error: ${response.statusText}`
ApiError(statusText) == "API Error: " \o statusText

\* response.json() on an empty body.
JsonSyntaxError == "Unexpected end of JSON input"

\* RemoteDB.fetchApi: throws on a response that is not OK, else parses the body.
\* The call record keeps the status text of the response.
FetchApi(op, arg, res) ==
    [ (IF ~res.ok THEN Threw(op, arg, ApiError(res.statusText))
       ELSE IF res.body.type = "empty" THEN Threw(op, arg, JsonSyntaxError)
       ELSE Returned(op, arg, res.body))
      EXCEPT !.status = res.statusText ]

\* `await this.fetchApi(...)` in a method that returns Promise<void>.
Discard(call) == IF call.kind = "return" THEN [call EXCEPT !.value = JUndefined] ELSE call

\* The caller of the store awaits each call before it makes the next one.
ClientIdle == setReq = << >>

\* Mutant: the comparison with NOW() is strict.
HandleGetPending_StrictlyBefore(table, t) ==
    LET ids == {id \in DOMAIN table :
                   table[id].status = "pending" /\ table[id].scheduled_for < t}
        ord == SortedSeq(ids)
    IN  OkJson(RowsJSON([k \in 1..Len(ord) |-> table[ord[k]]]))

\* GET /api/posts/pending
HandleGetPending(table, t) == OkJson(RowsJSON(SelectPendingDue(table, t)))

\* RemoteDB.getPendingPosts
RemoteGetPendingPosts(via) ==
    /\ ClientIdle
    /\ remote' = FetchApi("getPendingPosts", << >>,
                          IF via = "OK" THEN HandleGetPending(posts, now) ELSE NotOk(via))
    /\ UNCHANGED <<posts, nextId, credentials, setReq, now, cronSecret, run>>

\* A row as the body of a response.
RowObject(row) == [type |-> "object", fields |-> RowJSON(row)]

\* SELECT * FROM posts
SelectAll(table) ==
    LET ord == SortedSeq(DOMAIN table)
    IN  [k \in 1..Len(ord) |-> table[ord[k]]]

\* RemoteDB.getAllPosts: GET /api/posts
RemoteGetAllPosts(via) ==
    /\ ClientIdle
    /\ remote' = FetchApi("getAllPosts", << >>,
                          IF via = "OK" THEN OkJson(RowsJSON(SelectAll(posts))) ELSE NotOk(via))
    /\ UNCHANGED <<posts, nextId, credentials, setReq, now, cronSecret, run>>

\* RemoteDB.createPost: POST /api/posts with the draft as its JSON body; the
\* server parses the ISO string of scheduledFor back into the timestamp.
RemoteCreatePost(draft, via) ==
    /\ ClientIdle
    /\ IF via = "OK"
       THEN /\ nextId <= MaxPosts
            /\ posts' = InsertPost(posts, nextId, draft, now)
            /\ nextId' = nextId + 1
            /\ remote' = FetchApi("createPost", <<draft>>, OkJson(RowObject(posts'[nextId])))
       ELSE /\ remote' = FetchApi("createPost", <<draft>>, NotOk(via))
            /\ UNCHANGED <<posts, nextId>>
    /\ UNCHANGED <<credentials, setReq, now, cronSecret, run>>

\* RemoteDB.updatePost: PATCH /api/posts/:id. The server registers no PATCH
\* route, so Express answers 404 Not Found.
RemoteUpdatePost(id, patch, via) ==
    /\ ClientIdle
    /\ remote' = Discard(FetchApi("updatePost", <<id, patch>>,
                                  NotOk(IF via = "OK" THEN "Not Found" ELSE via)))
    /\ UNCHANGED <<posts, nextId, credentials, setReq, now, cronSecret, run>>

\* RemoteDB.deletePost: DELETE /api/posts/:id
RemoteDeletePost(id, via) ==
    /\ ClientIdle
    /\ IF via = "OK"
       THEN /\ posts' = DeleteRow(posts, id)
            /\ remote' = Discard(FetchApi("deletePost", <<id>>, OkJson(Success)))
       ELSE /\ remote' = Discard(FetchApi("deletePost", <<id>>, NotOk(via)))
            /\ UNCHANGED posts
    /\ UNCHANGED <<nextId, credentials, setReq, now, cronSecret, run>>

\* The two calls made before a call, most recent first.
Summary(call) == [op |-> call.op, arg |-> call.arg, kind |-> call.kind]
Recent(last) ==
    IF last.op = "none" THEN << >>
    ELSE <<Summary(last)>> \o
         (IF "prev" \in DOMAIN last /\ last.prev # << >> THEN <<last.prev[1]>> ELSE << >>)

\* A call on the credentials, with how its request was answered and the calls
\* made before it.
Tracked(call, via, prev) ==
    [ op |-> call.op, arg |-> call.arg, kind |-> call.kind, value |-> call.value,
      message |-> call.message, status |-> call.status, via |-> via, prev |-> prev ]

\* SELECT * FROM credentials LIMIT 1, then res.json(result.rows[0]): the
\* query has no ORDER BY, so any row may be the one.
HandleGetCredentials(table) ==
    IF table = << >> THEN { OkEmpty }
    ELSE { OkJson([type |-> "object", fields |-> table[k]]) : k \in DOMAIN table }

\* catch (error) { console.log(error); return null; }
CatchNull(call) ==
    IF call.kind = "throw"
    THEN [call EXCEPT !.kind = "return", !.value = JNull, !.message = ""]
    ELSE call

\* Mutant: getCredentials without its try/catch.
RemoteGetCredentials_NoCatch(via) ==
    /\ ClientIdle
    /\ \E res \in IF via = "OK" THEN HandleGetCredentials(credentials) ELSE { NotOk(via) } :
          remote' = Tracked(FetchApi("getCredentials", << >>, res), via, Recent(remote))
    /\ UNCHANGED <<posts, nextId, credentials, setReq, now, cronSecret, run>>

\* RemoteDB.getCredentials: GET /api/credentials inside try/catch.
GetCredentialsCall(via) ==
    /\ \E res \in IF via = "OK" THEN HandleGetCredentials(credentials) ELSE { NotOk(via) } :
          remote' = Tracked(CatchNull(FetchApi("getCredentials", << >>, res)),
                            via, Recent(remote))
    /\ UNCHANGED <<posts, nextId, credentials, setReq, now, cronSecret, run>>

\* RemoteDB.getCredentials, called by the browser that makes one call at a time.
RemoteGetCredentials(via) ==
    /\ ClientIdle
    /\ GetCredentialsCall(via)

\* RemoteDB.setCredentials, the request and the handler's DELETE.
RemoteSetCredentialsSend(creds, via) ==
    /\ ClientIdle
    /\ IF via = "OK"
       THEN /\ credentials' = ClearCredentials(credentials)
            /\ setReq' = Append(setReq, creds)
            /\ remote' = Tracked([NoCall EXCEPT !.op = "setCredentials", !.arg = <<creds>>,
                                                !.kind = "pending"],
                                 via, Recent(remote))
       ELSE /\ remote' = Tracked(Discard(FetchApi("setCredentials", <<creds>>, NotOk(via))),
                                 via, Recent(remote))
            /\ UNCHANGED <<credentials, setReq>>
    /\ UNCHANGED <<posts, nextId, now, cronSecret, run>>

\* RemoteDB.setCredentials, the handler's INSERT and its response.
RemoteSetCredentialsDone ==
    /\ remote.op = "setCredentials" /\ remote.kind = "pending"
    /\ Len(setReq) = 1
    /\ credentials' = AddCredentials(credentials, setReq[1])
    /\ setReq' = << >>
    /\ remote' = Tracked(Discard(FetchApi("setCredentials", remote.arg, OkJson(Success))),
                         remote.via, remote.prev)
    /\ UNCHANGED <<posts, nextId, now, cronSecret, run>>

\* RemoteDB.deleteCredentials: DELETE /api/credentials
RemoteDeleteCredentials(via) ==
    /\ ClientIdle
    /\ IF via = "OK"
       THEN /\ credentials' = ClearCredentials(credentials)
            /\ remote' = Tracked(Discard(FetchApi("deleteCredentials", << >>, OkJson(Success))),
                                 via, Recent(remote))
       ELSE /\ remote' = Tracked(Discard(FetchApi("deleteCredentials", << >>, NotOk(via))),
                                 via, Recent(remote))
            /\ UNCHANGED credentials
    /\ UNCHANGED <<posts, nextId, setReq, now, cronSecret, run>>

(* ------------------- the embedded store (LocalDB) ---------------------- *)

\* A list / one record handed to the caller by the embedded store.
ListOf(rows) == [type |-> "array", items |-> rows]
ObjectOf(rec) == [type |-> "object", fields |-> rec]

\* db.posts.add({ ...post, createdAt: new Date() })
LocalRow(id, draft, t) ==
    [ id           |-> id,
      content      |-> draft.content,
      scheduledFor |-> draft.scheduledFor,
      status       |-> draft.status,
      createdAt    |-> t,
      url          |-> draft.url,
      image        |-> draft.image ]

\* The rows of a table of the embedded store with the given keys, in key order.
LocalRows(table, ids) ==
    LET ord == SortedSeq(ids)
    IN  [k \in 1..Len(ord) |-> table[ord[k]]]

\* db.posts.update(id, changes): the fields named in changes are overwritten.
LocalMerge(row, patch) ==
    [f \in DOMAIN row \cup DOMAIN patch |-> IF f \in DOMAIN patch THEN patch[f] ELSE row[f]]

\* LocalDB.createPost: add the post, then read it back.
LocalCreatePost(draft) ==
    /\ local.nextId <= MaxPosts
    /\ LET row == LocalRow(local.nextId, draft, now)
       IN  local' = [local EXCEPT
                       !.posts = (local.nextId :> row) @@ @,
                       !.nextId = @ + 1,
                       !.call = Returned("createPost", <<draft>>, ObjectOf(row))]

\* LocalDB.getAllPosts: db.posts.toArray()
LocalGetAllPosts ==
    local' = [local EXCEPT !.call =
                Returned("getAllPosts", << >>,
                         ListOf(LocalRows(local.posts, DOMAIN local.posts)))]

\* LocalDB.getPendingPosts / getPostsToSend:
\* where("status").equals("pending").and(post => post.scheduledFor <= now)
LocalGetPendingPosts ==
    local' = [local EXCEPT !.call =
                Returned("getPendingPosts", << >>,
                         ListOf(LocalRows(local.posts,
                                          {id \in DOMAIN local.posts :
                                              /\ local.posts[id].status = "pending"
                                              /\ local.posts[id].scheduledFor <= now})))]

\* LocalDB.updatePost: db.posts.update(id, post)
LocalUpdatePost(id, patch) ==
    local' = [local EXCEPT
                !.posts = IF id \in DOMAIN @ THEN [@ EXCEPT ![id] = LocalMerge(@, patch)] ELSE @,
                !.call = Returned("updatePost", <<id, patch>>, JUndefined)]

\* LocalDB.deletePost: db.posts.delete(id)
LocalDeletePost(id) ==
    local' = [local EXCEPT
                !.posts = [k \in DOMAIN @ \ {id} |-> @[k]],
                !.call = Returned("deletePost", <<id>>, JUndefined)]

\* LocalDB.getCredentials: db.credentials.toCollection().first(), null when
\* there is none.
LocalGetCredentials ==
    local' = [local EXCEPT !.call =
                Returned("getCredentials", << >>,
                         IF local.credentials = << >> THEN JNull
                         ELSE ObjectOf(local.credentials[1]))]

\* LocalDB.setCredentials, first step: db.credentials.clear()
LocalSetCredentialsClear(creds) ==
    local' = [local EXCEPT
                !.credentials = << >>,
                !.call = [NoCall EXCEPT !.op = "setCredentials", !.arg = <<creds>>,
                                        !.kind = "pending"]]

\* LocalDB.setCredentials, second step: db.credentials.add({ ...creds, id: 1 })
LocalSetCredentialsAdd ==
    /\ local.call.op = "setCredentials" /\ local.call.kind = "pending"
    /\ LET creds == local.call.arg[1]
       IN  local' = [local EXCEPT
                       !.credentials = Append(@, [id |-> 1, identifier |-> creds.identifier,
                                                  password |-> creds.password]),
                       !.call = Returned("setCredentials", <<creds>>, JUndefined)]

\* LocalDB.deleteCredentials: db.credentials.clear()
LocalDeleteCredentials ==
    local' = [local EXCEPT
                !.credentials = << >>,
                !.call = Returned("deleteCredentials", << >>, JUndefined)]

(* --------------------------- payload builder --------------------------- *)

\* An image of a draft, already uploaded: its blob reference, its alt text if
\* any, and its id in the image store.
ImageDrafts ==
    { [blobRef |-> "blob-1", alt |-> a, localImageId |-> 1] : a \in {"Test image", Undefined} }

\* The drafts getPostData is called with: a text and a time, with or without
\* a url, with or without an image.
PayloadDrafts ==
    [ content     : {"hello"},
      scheduledAt : ScheduleTimes,
      url         : {Undefined, "https://example.com"},
      image       : {<< >>} \cup { <<i>> : i \in ImageDrafts } ]

\* What the fetches of fetchUrlMetadata do: the metadata fetch gives a page
\* without image ("found"), rejects ("failed") or gives null ("empty"); or it
\* gives a page with an image, which is then fetched and uploaded ("image")
\* or cannot be fetched ("image-failed").
MetadataOutcomes == {"found", "failed", "empty", "image", "image-failed"}

\* fetchUrlMetadata(url, agent, creds): the title and description of the
\* page, with the uploaded image as thumb when there is one; the url itself
\* as title when the metadata fetch fails or gives nothing.
FetchUrlMetadata(url, outcome) ==
    IF outcome \in {"failed", "empty"}
    THEN [uri |-> url, title |-> url, description |-> "",
          thumb |-> Undefined, websiteImageLocalId |-> Undefined]
    ELSE [uri |-> url, title |-> "Example", description |-> "Test site",
          thumb |-> IF outcome = "image" THEN "blob-2" ELSE Undefined,
          websiteImageLocalId |-> IF outcome = "image" THEN "image-2" ELSE Undefined]

\* Mutant: the rejection of the metadata fetch is not caught.
FetchUrlMetadataCall_NoCatch(url, outcome) ==
    IF outcome = "failed"
    THEN Threw("fetchUrlMetadata", <<url>>, "Network error")
    ELSE Returned("fetchUrlMetadata", <<url>>, ObjectOf(FetchUrlMetadata(url, outcome)))

\* A call of fetchUrlMetadata, as its caller sees it: it returns whatever the
\* fetches did.
FetchUrlMetadataCall(url, outcome) ==
    Returned("fetchUrlMetadata", <<url>>, ObjectOf(FetchUrlMetadata(url, outcome)))

\* getStoredCredentials: db().getCredentials() of the store of the browser.
GetStoredCredentials ==
    IF local.credentials = << >> THEN JNull ELSE ObjectOf(local.credentials[1])

\* Mutant: the image is looked at before the url.
EmbedOf_ImageFirst(draft, outcome) ==
    IF draft.image # << >>
    THEN << [type   |-> "app.bsky.embed.images",
             images |-> << [alt |-> draft.image[1].alt, image |-> draft.image[1].blobRef,
                            localImageId |-> draft.image[1].localImageId] >>] >>
    ELSE IF draft.url # Undefined
    THEN << [type |-> "app.bsky.embed.external",
             external |-> FetchUrlMetadata(draft.url, outcome)] >>
    ELSE << >>

\* The embed of getPostData's result, if any: the link card of the url, else
\* the image with its alt text or "", else none.
EmbedOf(draft, outcome) ==
    IF draft.url # Undefined
    THEN << [type |-> "app.bsky.embed.external",
             external |-> FetchUrlMetadata(draft.url, outcome)] >>
    ELSE IF draft.image # << >>
    THEN << [type   |-> "app.bsky.embed.images",
             images |-> << [alt          |-> IF draft.image[1].alt = Undefined THEN ""
                                             ELSE draft.image[1].alt,
                            image        |-> draft.image[1].blobRef,
                            localImageId |-> draft.image[1].localImageId] >>] >>
    ELSE << >>

\* The record getPostData returns: text, facets, createdAt (the scheduled
\* time as an ISO string), and the embed when there is one.
PostData(draft, outcome) ==
    LET embed == EmbedOf(draft, outcome)
    IN  IF embed = << >>
        THEN [text |-> draft.content, facets |-> << >>, createdAt |-> ISO(draft.scheduledAt)]
        ELSE [text |-> draft.content, facets |-> << >>, createdAt |-> ISO(draft.scheduledAt),
              embed |-> embed[1]]

\* The network calls of a getPostData that got credentials.
NetworkOf(draft, creds) ==
    IF draft.url # Undefined
    THEN << [call |-> "fetchUrlMetadata", url |-> draft.url, creds |-> creds] >>
    ELSE << >>

\* Mutant: the payload is built whatever the credentials are.
GetPostDataResult_NoCheck(draft, creds, outcome) ==
    [ call    |-> Returned("getPostData", <<draft>>, ObjectOf(PostData(draft, outcome))),
      creds   |-> creds,
      network |-> NetworkOf(draft, creds) ]

\* getPostData({content, url, image, scheduledAt}) with the credentials it
\* read: throws 'No credentials set' without them, else builds the post.
GetPostDataResult(draft, creds, outcome) ==
    IF creds = JNull
    THEN [ call    |-> Threw("getPostData", <<draft>>, "No credentials set"),
           creds   |-> creds,
           network |-> << >> ]
    ELSE [ call    |-> Returned("getPostData", <<draft>>, ObjectOf(PostData(draft, outcome))),
           creds   |-> creds,
           network |-> NetworkOf(draft, creds) ]

\* A call of fetchUrlMetadata on its own (the link preview of the editor),
\* with what the fetches did as the status of the call.
FetchMetadata(url, outcome) ==
    /\ payload' = [ call    |-> [FetchUrlMetadataCall(url, outcome) EXCEPT !.status = outcome],
                    creds   |-> GetStoredCredentials,
                    network |-> << [call |-> "fetch", url |-> url] >> ]
    /\ UNCHANGED <<posts, nextId, credentials, setReq, now, cronSecret, run, remote, local>>

\* A call of getPostData.
GetPostData(draft, outcome) ==
    /\ payload' = GetPostDataResult(draft, GetStoredCredentials, outcome)
    /\ UNCHANGED <<posts, nextId, credentials, setReq, now, cronSecret, run, remote, local>>

(* ------------------------- the store handle --------------------------- *)

\* import.meta.env.VITE_STORAGE_MODE
StorageModes == {"remote", "local"}

\* The number of store objects constructed so far.
Constructed ==
    IF payload.call.op = "createDatabase" THEN payload.call.value.instance ELSE 0

\* createDatabase(): a new RemoteDB when the storage mode is "remote", a new
\* LocalDB otherwise. The mode is the one of the build: every call of a
\* process sees the same.
CreateDatabase(mode) ==
    /\ Constructed < MaxInstances
    /\ payload.call.op = "createDatabase" => payload.call.arg = <<mode>>
    /\ payload' = [ call    |-> Returned("createDatabase", <<mode>>,
                                         [type     |-> IF mode = "remote" THEN "RemoteDB"
                                                       ELSE "LocalDB",
                                          instance |-> Constructed + 1]),
                    creds   |-> JUndefined,
                    network |-> << >> ]
    /\ UNCHANGED <<posts, nextId, credentials, setReq, now, cronSecret, run, remote, local>>

(* --------------------- specifications of the store --------------------- *)

\* A row of the posts table as the handlers leave it: pending, published, or
\* failed with the message of the error.
StoredRow(id, t, status) ==
    [ id            |-> id,
      content       |-> "hello",
      scheduled_for |-> t,
      status        |-> status,
      error         |-> IF status = "failed" THEN PostErrorMessage ELSE Null,
      created_at    |-> 0,
      url           |-> Null,
      image         |-> Null ]

\* The posts tables a query is applied to.
StoredTables ==
    UNION { { [id \in 1..n |-> StoredRow(id, f[id][1], f[id][2])] :
                f \in [1..n -> (0..MaxTime) \X {"pending", "published", "failed"}] }
            : n \in 0..MaxRows }

\* The server with some posts stored, at some time.
InitSelect ==
    /\ posts \in StoredTables
    /\ nextId = Len(posts) + 1
    /\ credentials = << >>
    /\ setReq = << >>
    /\ now \in 0..MaxTime
    /\ cronSecret = "s3cret"
    /\ run = [r \in Runs |-> IdleRun]
    /\ remote = NoCall
    /\ local = EmptyLocal
    /\ payload = NoPayload

\* The browser asks the server for the posts to send.
NextSelect == \E via \in Transport : RemoteGetPendingPosts(via) /\ UNCHANGED <<local, payload>>

SpecSelect == InitSelect /\ [][NextSelect]_vars

\* The fields updatePost is asked to change.
Patches == { [status |-> "published"], [status |-> "failed", error |-> PostErrorMessage] }

\* The browser working on the posts of the remote store, one call at a time.
NextPosts ==
    \/ \E d \in StoreDrafts : RemoteCreatePost(d, "OK") /\ UNCHANGED <<local, payload>>
    \/ RemoteGetAllPosts("OK") /\ UNCHANGED <<local, payload>>
    \/ RemoteGetPendingPosts("OK") /\ UNCHANGED <<local, payload>>
    \/ \E id \in 1..MaxPosts, patch \in Patches :
          RemoteUpdatePost(id, patch, "OK") /\ UNCHANGED <<local, payload>>
    \/ \E id \in 1..MaxPosts : RemoteDeletePost(id, "OK") /\ UNCHANGED <<local, payload>>
    \/ Tick

SpecPosts == Init /\ [][NextPosts]_vars

\* The credentials handlers with requests of several browsers in flight: the
\* statements of the requests interleave.
NextCredsRace ==
    \/ \E c \in StoreCreds :
          Len(setReq) < Cardinality(Browsers) /\ SetCredentialsDelete(c)
    \/ \E k \in DOMAIN setReq : SetCredentialsInsert(k)
    \/ DeleteCredentials

SpecCredsRace == Init /\ [][NextCredsRace]_vars

\* The browser working on the credentials of the remote store, one call at a
\* time.
NextCreds ==
    \/ \E via \in Transport : RemoteGetCredentials(via) /\ UNCHANGED <<local, payload>>
    \/ \E c \in StoreCreds, via \in Transport :
          RemoteSetCredentialsSend(c, via) /\ UNCHANGED <<local, payload>>
    \/ RemoteSetCredentialsDone /\ UNCHANGED <<local, payload>>
    \/ \E via \in Transport : RemoteDeleteCredentials(via) /\ UNCHANGED <<local, payload>>

SpecCreds == Init /\ [][NextCreds]_vars

\* The same calls on the credentials made on both stores: the browser in
\* remote mode and the browser in local mode.
NextCredsBoth ==
    \/ \E via \in Transport :
          RemoteGetCredentials(via) /\ LocalGetCredentials /\ UNCHANGED payload
    \/ \E c \in StoreCreds :
          RemoteSetCredentialsSend(c, "OK") /\ LocalSetCredentialsClear(c) /\ UNCHANGED payload
    \/ RemoteSetCredentialsDone /\ LocalSetCredentialsAdd /\ UNCHANGED payload
    \/ RemoteDeleteCredentials("OK") /\ LocalDeleteCredentials /\ UNCHANGED payload

SpecCredsBoth == Init /\ [][NextCredsBoth]_vars

\* The browser working on the remote store, one call at a time, with requests
\* that are answered by the server and requests that are not.
NextRemote ==
    \/ \E d \in CronDrafts, via \in Transport :
          RemoteCreatePost(d, via) /\ UNCHANGED <<local, payload>>
    \/ \E via \in Transport : RemoteGetAllPosts(via) /\ UNCHANGED <<local, payload>>
    \/ \E via \in Transport : RemoteGetPendingPosts(via) /\ UNCHANGED <<local, payload>>
    \/ \E id \in 1..MaxPosts, patch \in Patches, via \in Transport :
          RemoteUpdatePost(id, patch, via) /\ UNCHANGED <<local, payload>>
    \/ \E id \in 1..MaxPosts, via \in Transport :
          RemoteDeletePost(id, via) /\ UNCHANGED <<local, payload>>
    \/ \E via \in Transport : RemoteGetCredentials(via) /\ UNCHANGED <<local, payload>>
    \/ \E c \in CronCreds, via \in Transport :
          RemoteSetCredentialsSend(c, via) /\ UNCHANGED <<local, payload>>
    \/ RemoteSetCredentialsDone /\ UNCHANGED <<local, payload>>
    \/ \E via \in Transport : RemoteDeleteCredentials(via) /\ UNCHANGED <<local, payload>>

SpecRemote == Init /\ [][NextRemote]_vars

\* The same calls made on both stores, one at a time, with every request
\* answered by the server.
NextEquiv ==
    \/ \E d \in {x \in StoreDrafts : x.image = Null} :
          RemoteCreatePost(d, "OK") /\ LocalCreatePost(d) /\ UNCHANGED payload
    \/ RemoteGetAllPosts("OK") /\ LocalGetAllPosts /\ UNCHANGED payload
    \/ RemoteGetPendingPosts("OK") /\ LocalGetPendingPosts /\ UNCHANGED payload
    \/ \E id \in 1..MaxPosts, patch \in Patches :
          RemoteUpdatePost(id, patch, "OK") /\ LocalUpdatePost(id, patch) /\ UNCHANGED payload
    \/ \E id \in 1..MaxPosts :
          RemoteDeletePost(id, "OK") /\ LocalDeletePost(id) /\ UNCHANGED payload
    \/ RemoteGetCredentials("OK") /\ LocalGetCredentials /\ UNCHANGED payload
    \/ \E c \in CronCreds :
          RemoteSetCredentialsSend(c, "OK") /\ LocalSetCredentialsClear(c) /\ UNCHANGED payload
    \/ RemoteSetCredentialsDone /\ LocalSetCredentialsAdd /\ UNCHANGED payload
    \/ RemoteDeleteCredentials("OK") /\ LocalDeleteCredentials /\ UNCHANGED payload
    \/ Tick

SpecEquiv == Init /\ [][NextEquiv]_vars

\* The browser with the embedded store: credentials are set and deleted, and
\* payloads are built.
NextPayload ==
    \/ \E d \in PayloadDrafts, o \in MetadataOutcomes : GetPostData(d, o)
    \/ \E o \in MetadataOutcomes : FetchMetadata("https://example.com", o)
    \/ \E c \in StoreCreds :
          /\ LocalSetCredentialsClear(c)
          /\ UNCHANGED <<posts, nextId, credentials, setReq, now, cronSecret, run, remote, payload>>
    \/ /\ LocalSetCredentialsAdd
       /\ UNCHANGED <<posts, nextId, credentials, setReq, now, cronSecret, run, remote, payload>>
    \/ /\ LocalDeleteCredentials
       /\ UNCHANGED <<posts, nextId, credentials, setReq, now, cronSecret, run, remote, payload>>

SpecPayload == Init /\ [][NextPayload]_vars

\* The server with at most `most` pending posts stored, with or without
\* credentials, at some time.
InitStored(most) ==
    /\ posts \in { [id \in 1..n |-> StoredRow(id, 0, "pending")] : n \in 0..most }
    /\ nextId = Len(posts) + 1
    /\ credentials \in {<< >>} \cup { <<c>> : c \in CronCreds }
    /\ setReq = << >>
    /\ now \in 0..MaxTime
    /\ cronSecret = "s3cret"
    /\ run = [r \in Runs |-> IdleRun]
    /\ remote = NoCall
    /\ local = EmptyLocal
    /\ payload = NoPayload

InitRace == InitStored(MaxBacklog)

\* The cron service triggers the endpoint while an earlier invocation is
\* still in flight.
NextRace ==
    \/ \E r \in Runs : CronRequest(r, BearerOf(cronSecret))
    \/ \E r \in Runs : CronStep(r)

SpecRace == InitRace /\ [][NextRace]_vars

\* A single worker whose run may be interrupted: the cron service triggers
\* the endpoint (slot 1), the run is interrupted or comes to its end, and
\* after an interruption the next trigger starts the next run (slot 2).
NextInterrupt ==
    \/ run[2].pc = "idle" /\ CronRequest(1, BearerOf(cronSecret))
    \/ CronStep(1)
    \/ CronInterrupt(1)
    \/ run[1].pc = "interrupted" /\ CronRequest(2, BearerOf(cronSecret))
    \/ CronSelect(2)
    \/ CronGetCreds(2)
    \/ \E o \in LoginOutcomes : CronLogin(2, o)
    \/ \E o \in NetOutcomes : CronPost(2, o)
    \/ CronMarkPublished(2)
    \/ CronMarkFailed(2)
    \/ CronRespond(2)
    \/ CronRecover
    \/ Tick

InitInterrupt == InitStored(MaxPosts)

SpecInterrupt == InitInterrupt /\ [][NextInterrupt]_vars

\* The single worker, with the posts the browser creates: with or without a
\* link, with or without an image.
NextPublish ==
    \/ \E d \in StoreDrafts : Len(posts) < MaxBacklog /\ CreatePost(d)
    \/ \E c \in CronCreds : SingleSetCredentials(c)
    \/ \E k \in DOMAIN setReq : SetCredentialsInsert(k)
    \/ Tick
    \/ SingleCronRequest(BearerOf(cronSecret))
    \/ CronStep(1)

SpecPublish == Init /\ [][NextPublish]_vars

\* The browser obtains its store, and reads, stores and deletes credentials.
NextHandle ==
    \/ \E mode \in StorageModes : CreateDatabase(mode)
    \/ /\ LocalGetCredentials
       /\ UNCHANGED <<posts, nextId, credentials, setReq, now, cronSecret, run, remote, payload>>
    \/ \E c \in StoreCreds :
          /\ LocalSetCredentialsClear(c)
          /\ UNCHANGED <<posts, nextId, credentials, setReq, now, cronSecret, run, remote, payload>>
    \/ /\ LocalSetCredentialsAdd
       /\ UNCHANGED <<posts, nextId, credentials, setReq, now, cronSecret, run, remote, payload>>
    \/ /\ LocalDeleteCredentials
       /\ UNCHANGED <<posts, nextId, credentials, setReq, now, cronSecret, run, remote, payload>>

SpecHandle == Init /\ [][NextHandle]_vars

\* The server with posts of every status stored, due or not, at some time.
InitFrame ==
    /\ posts \in {t \in StoredTables : Len(t) <= MaxPosts}
    /\ nextId = Len(posts) + 1
    /\ credentials \in {<< >>} \cup {<<c>> : c \in CronCreds}
    /\ setReq = << >>
    /\ now \in 0..MaxTime
    /\ cronSecret = "s3cret"
    /\ run = [r \in Runs |-> IdleRun]
    /\ remote = NoCall
    /\ local = EmptyLocal
    /\ payload = NoPayload

\* The worker's runs over the stored posts, and the clock.
NextFrame ==
    \/ SingleCronRequest(BearerOf(cronSecret))
    \/ CronStep(1)
    \/ Tick

SpecFrame == InitFrame /\ [][NextFrame]_vars

\* The server started without CRON_SECRET in its environment.
InitUnset ==
    /\ posts \in {t \in StoredTables : Len(t) <= MaxBacklog}
    /\ nextId = Len(posts) + 1
    /\ credentials \in {<< >>} \cup {<<c>> : c \in CronCreds}
    /\ setReq = << >>
    /\ now \in 0..MaxTime
    /\ cronSecret = Undefined
    /\ run = [r \in Runs |-> IdleRun]
    /\ remote = NoCall
    /\ local = EmptyLocal
    /\ payload = NoPayload

\* Requests to the cron endpoint with any Authorization header, one at a time.
NextUnset ==
    \/ \E h \in Headers : SingleCronRequest(h)
    \/ CronStep(1)
    \/ Tick

SpecUnset == InitUnset /\ [][NextUnset]_vars

\* The server with credentials stored.
InitReplace == InitStored(MaxBacklog) /\ credentials # << >>

\* The stored credentials are replaced by one browser while another browser
\* reads them and the single worker runs.
NextReplace ==
    \/ \E c \in StoreCreds : SingleSetCredentials(c)
    \/ \E k \in DOMAIN setReq : SetCredentialsInsert(k)
    \/ GetCredentialsCall("OK") /\ UNCHANGED <<local, payload>>
    \/ SingleCronRequest(BearerOf(cronSecret))
    \/ CronStep(1)

SpecReplace == InitReplace /\ [][NextReplace]_vars

(* ------------------------ the history of a run ------------------------- *)

\* The positions in the history of run r of the calls `op` made for post id.
CallsFor(r, op, id) ==
    {k \in DOMAIN run[r].log : run[r].log[k].op = op /\ run[r].log[k].id = id}

\* The positions in the history of run r of the calls `op`.
CallsOf(r, op) == {k \in DOMAIN run[r].log : run[r].log[k].op = op}

\* The number of publish calls (agent.post) run r made for post id.
PublishCalls(r, id) == Cardinality(CallsFor(r, "post", id))

\* The run has sent its success response.
Responded(r) == run[r].pc = "done" /\ run[r].response = 200

\* Run r made a call `op` for post id that ended in `res`.
Had(r, op, id, res) == \E k \in CallsFor(r, op, id) : run[r].log[k].res = res

\* The ids of the rows run r selected.
BatchIds(r) == {run[r].batch[k].id : k \in DOMAIN run[r].batch}

PostIds == 1..MaxPosts

(* ------------------------------- C1 ------------------------------------ *)

\* C1 as stated: once a run has responded, it has made exactly one publish
\* call for every post that was pending and due when it selected, and for any
\* other post it made no publish call and wrote nothing.
C1_ExactlyOnePublishPerDuePost ==
    \A r \in Runs : Responded(r) =>
        /\ \A id \in run[r].due : PublishCalls(r, id) = 1
        /\ \A id \in PostIds \ run[r].due :
              PublishCalls(r, id) = 0 /\ CallsFor(r, "update", id) = {}

\* C1 amended: a run attempts every post that was pending and due at selection
\* exactly once (one outcome write), with one publish call when a credential
\* row was read and the login for that post succeeded and none otherwise; a
\* post that was not pending and due at selection gets no call and no write.
C1_OneAttemptPerDuePost ==
    \A r \in Runs :
        /\ \A id \in PostIds \ run[r].due :
              \A k \in DOMAIN run[r].log : run[r].log[k].id # id
        /\ \A id \in run[r].due :
              /\ PublishCalls(r, id) <= 1
              /\ Cardinality(CallsFor(r, "update", id)) <= 1
              /\ PublishCalls(r, id) = 1 =>
                    Had(r, "creds", id, "some") /\ Had(r, "login", id, "ok")
        /\ Responded(r) =>
              \A id \in run[r].due :
                  /\ Cardinality(CallsFor(r, "update", id)) = 1
                  /\ Had(r, "login", id, "ok") => PublishCalls(r, id) = 1

\* A run that published its one due post and left a post scheduled later alone.
C1_Witness ==
    \E r \in Runs :
        /\ Responded(r)
        /\ run[r].due = {1}
        /\ PublishCalls(r, 1) = 1
        /\ 2 \in DOMAIN posts
        /\ posts[2].status = "pending"
        /\ \A k \in DOMAIN run[r].log : run[r].log[k].id # 2

(* ------------------------------- C2 ------------------------------------ *)

\* C2: once a run has responded, every post for which it read credentials,
\* logged in and published successfully has status published.
C2_HappyPathPublished ==
    \A r \in Runs : Responded(r) =>
        \A id \in run[r].due :
            (Had(r, "creds", id, "some") /\ Had(r, "login", id, "ok")
                /\ Had(r, "post", id, "ok") /\ id \in DOMAIN posts)
            => posts[id].status = "published"

C2_Witness ==
    \E r \in Runs :
        /\ Responded(r)
        /\ 1 \in run[r].due
        /\ Had(r, "login", 1, "ok") /\ Had(r, "post", 1, "ok")
        /\ 1 \in DOMAIN posts
        /\ posts[1].status = "published"

(* ------------------------------- C3 ------------------------------------ *)

\* C3: a run that found no credential row makes no login and no publish call
\* and leaves every post it selected as it was.
C3_NoCredentialsNoOp ==
    \A r \in Runs :
        (Responded(r) /\ \A k \in CallsOf(r, "creds") : run[r].log[k].res = "none") =>
            /\ CallsOf(r, "login") = {}
            /\ CallsOf(r, "post") = {}
            /\ \A k \in DOMAIN run[r].batch :
                  run[r].batch[k].id \in DOMAIN posts
                      => posts[run[r].batch[k].id] = run[r].batch[k]

(* ------------------------------- C4 ------------------------------------ *)

\* The message the catch block records for the call that failed last.
C4_ExpectedMessage(e) ==
    CASE e.op = "creds" -> TypeErrorMessage
      [] e.op = "login" /\ e.res = "error" -> LoginErrorMessage
      [] e.op = "post" /\ e.res = "error" -> PostErrorMessage
      [] OTHER -> "Unknown error"

C7_BatchCompletesBeforeResponse ==
    \A r \in Runs :
        /\ \A k \in DOMAIN run[r].batch :
              (k < run[r].i \/ run[r].pc \in {"respond", "done"}) =>
                  LET id == run[r].batch[k].id
                  IN  /\ Cardinality(CallsFor(r, "update", id)) = 1
                      /\ id \in DOMAIN posts => posts[id].status \in {"published", "failed"}
        /\ run[r].pc \in {"creds", "login", "post", "update", "catch"}
              => run[r].i \in DOMAIN run[r].batch
        /\ run[r].response = 200 => run[r].pc = "done"

\* A run answered after its first post failed and its second was published.
C7_Witness ==
    \E r \in Runs :
        /\ run[r].response = 200
        /\ Len(run[r].batch) = 2
        /\ Had(r, "update", run[r].batch[1].id, "failed")
        /\ Had(r, "update", run[r].batch[2].id, "published")

(* ------------------------------- C8 ------------------------------------ *)

\* C8: no step changes the status of a post that is published or failed.
C8_StatusTerminal ==
    [][\A id \in DOMAIN posts \cap DOMAIN posts' :
          posts[id].status \in {"published", "failed"}
              => posts'[id].status = posts[id].status]_vars

(* ------------------------------- C9 ------------------------------------ *)

\* C9: with a secret configured, a request whose Authorization header is
\* missing or is not "Bearer <secret>" is answered 401 and has made no store
\* read, no store write, no login and no publish call.
C9_UnauthorizedRejected ==
    \A r \in Runs :
        (run[r].pc # "idle" /\ cronSecret # Undefined
            /\ run[r].header # "Bearer " \o cronSecret) =>
            /\ run[r].pc = "done"
            /\ run[r].response = 401
            /\ run[r].log = << >>
            /\ run[r].batch = << >>

\* A request with a wrong bearer token was answered 401 while a post was due
\* and credentials were stored.
C9_Witness ==
    \E r \in Runs :
        /\ run[r].response = 401
        /\ run[r].header = "Bearer undefined"
        /\ credentials # << >>
        /\ \E id \in DOMAIN posts : IsPendingDue(posts[id], now)

(* ------------------------------- C10 ----------------------------------- *)

\* C10: a run whose selection is empty goes straight to its response: its
\* only call is the SELECT of the due posts.
C10_EmptySelectionNoOp ==
    \A r \in Runs :
        (CallsOf(r, "select") # {} /\ run[r].batch = << >>) =>
            /\ run[r].pc \in {"respond", "done"}
            /\ Len(run[r].log) = 1
            /\ CallsOf(r, "creds") = {}
            /\ CallsOf(r, "login") = {}
            /\ CallsOf(r, "post") = {}
            /\ CallsOf(r, "update") = {}

\* A run with nothing due answered while credentials were stored and a post
\* scheduled later was pending.
C10_Witness ==
    \E r \in Runs :
        /\ Responded(r)
        /\ run[r].batch = << >>
        /\ credentials # << >>
        /\ \E id \in DOMAIN posts :
              posts[id].status = "pending" /\ posts[id].scheduled_for > now

(* ------------------------------- C11 ----------------------------------- *)

\* C11: with the cron service triggering the endpoint again and again, no post
\* stays pending forever once its scheduled time has been reached: again and
\* again, every stored post whose time has come is published or failed. (The
\* clock only advances, so a post that is due stays due until it is written.)
C11_DuePostLeavesPending ==
    []<>(\A id \in DOMAIN posts :
            posts[id].scheduled_for <= now
                => posts[id].status \in {"published", "failed"})

\* Post 1, scheduled one tick after the start, was written by a run that
\* selected it once its time had come.
C11_Witness ==
    /\ 1 \in DOMAIN posts
    /\ posts[1].scheduled_for = 1
    /\ posts[1].status \in {"published", "failed"}
    /\ 1 \in run[1].due
    /\ CallsFor(1, "update", 1) # {}

(* ------------------------------- C12 ----------------------------------- *)

\* The ids of the posts in a list the caller received.
IdsOf(list) == {list.items[k].id : k \in DOMAIN list.items}

\* C12: the list getPendingPosts returns holds exactly the stored posts with
\* status pending and scheduled time <= now, each once and as stored: a post
\* scheduled exactly at now is in it, a pending post scheduled later is not,
\* and a published or failed post is not.
C12_PendingDueExactly ==
    (remote.op = "getPendingPosts" /\ remote.kind = "return") =>
        /\ remote.value.type = "array"
        /\ IdsOf(remote.value) =
              {id \in DOMAIN posts :
                  posts[id].status = "pending" /\ posts[id].scheduled_for <= now}
        /\ Cardinality(IdsOf(remote.value)) = Len(remote.value.items)
        /\ \A k \in DOMAIN remote.value.items :
              LET p == remote.value.items[k]
              IN  /\ p.status = "pending"
                  /\ p.scheduled_for.iso <= now
                  /\ p = RowJSON(posts[p.id])
        /\ \A id \in DOMAIN posts :
              /\ (posts[id].status = "pending" /\ posts[id].scheduled_for = now)
                    => id \in IdsOf(remote.value)
              /\ posts[id].scheduled_for > now => id \notin IdsOf(remote.value)
              /\ posts[id].status \in {"published", "failed"}
                    => id \notin IdsOf(remote.value)

\* The list holds the one post scheduled exactly at now; a pending post
\* scheduled later and a published post whose time has come are left out.
C12_Witness ==
    /\ remote.op = "getPendingPosts" /\ remote.kind = "return"
    /\ IdsOf(remote.value) = {2}
    /\ Len(posts) = 3
    /\ posts[1].status = "published" /\ posts[1].scheduled_for = 0
    /\ posts[2].status = "pending" /\ posts[2].scheduled_for = now
    /\ posts[3].status = "pending" /\ posts[3].scheduled_for > now

(* ------------------------------- C13 ----------------------------------- *)

\* The post a caller reads from a row of a response: the column scheduled_for
\* read as scheduledFor, created_at as createdAt, the ISO strings as times.
AsPost(row) ==
    [ id           |-> row.id,
      content      |-> row.content,
      scheduledFor |-> row.scheduled_for.iso,
      status       |-> row.status,
      createdAt    |-> row.created_at.iso,
      url          |-> row.url,
      image        |-> row.image ]

\* C13: when createPost(draft) returned and the next call is getAllPosts(), the
\* list holds a post with the id createPost assigned whose content, scheduled
\* time, url and image are the draft's and whose status is pending.
C13_CreateThenGetAllRoundTrip ==
    [][(/\ remote.op = "createPost" /\ remote.kind = "return"
        /\ remote'.op = "getAllPosts" /\ remote'.kind = "return")
       => \E k \in DOMAIN remote'.value.items :
             LET p == AsPost(remote'.value.items[k])
                 d == remote.arg[1]
             IN  /\ p.id = remote.value.fields.id
                 /\ p.content = d.content
                 /\ p.scheduledFor = d.scheduledFor
                 /\ p.url = d.url
                 /\ p.image = d.image
                 /\ p.status = "pending"
      ]_vars

(* ------------------------------- C14 ----------------------------------- *)

\* C14: the credentials table never holds more than one record, whatever the
\* interleaving of the setCredentials and deleteCredentials requests.
C14_AtMostOneCredential == Len(credentials) <= 1

(* ------------------------------- C15 ----------------------------------- *)

\* C15: a setCredentials call that returned leaves exactly one record, equal
\* to its argument; and a getCredentials call that follows a returned
\* setCredentials(b) and is answered by the server returns b's identifier and
\* password, whatever was stored before.
C15_LastWriteWins ==
    /\ (remote.op = "setCredentials" /\ remote.kind = "return")
          => credentials = <<remote.arg[1]>>
    /\ (/\ remote.op = "getCredentials" /\ remote.via = "OK"
        /\ remote.prev # << >>
        /\ remote.prev[1].op = "setCredentials" /\ remote.prev[1].kind = "return")
          => LET b == remote.prev[1].arg[1]
             IN  /\ credentials = <<b>>
                 /\ remote.kind = "return"
                 /\ remote.value.type = "object"
                 /\ remote.value.fields.identifier = b.identifier
                 /\ remote.value.fields.password = b.password

\* setCredentials(a), then setCredentials(b) with another identifier and
\* another password, then getCredentials: it returned b.
C15_Witness ==
    /\ remote.op = "getCredentials" /\ remote.kind = "return"
    /\ Len(remote.prev) = 2
    /\ remote.prev[1].op = "setCredentials" /\ remote.prev[1].kind = "return"
    /\ remote.prev[2].op = "setCredentials" /\ remote.prev[2].kind = "return"
    /\ remote.prev[2].arg[1].identifier # remote.prev[1].arg[1].identifier
    /\ remote.prev[2].arg[1].password # remote.prev[1].arg[1].password
    /\ remote.value.type = "object"
    /\ remote.value.fields = remote.prev[1].arg[1]
    /\ Len(credentials) = 1

(* ------------------------------- C16 ----------------------------------- *)

\* C16: a getCredentials call on a store that holds no credential record
\* returns null and does not throw, on the remote store and on the embedded
\* store.
C16_NoCredentialsIsNull ==
    /\ (remote.op = "getCredentials" /\ credentials = << >>)
          => remote.kind = "return" /\ remote.value = JNull
    /\ (local.call.op = "getCredentials" /\ local.credentials = << >>)
          => local.call.kind = "return" /\ local.call.value = JNull

\* Credentials were set and then deleted; the server answered the
\* getCredentials that followed, and both stores returned null.
C16_Witness ==
    /\ remote.op = "getCredentials" /\ remote.via = "OK"
    /\ Len(remote.prev) = 2
    /\ remote.prev[1].op = "deleteCredentials" /\ remote.prev[1].kind = "return"
    /\ remote.prev[2].op = "setCredentials" /\ remote.prev[2].kind = "return"
    /\ credentials = << >>
    /\ remote.kind = "return" /\ remote.value = JNull
    /\ local.call.op = "getCredentials" /\ local.credentials = << >>
    /\ local.call.kind = "return" /\ local.call.value = JNull

(* ------------------------------- C17 ----------------------------------- *)

\* C17: a call on the remote store whose response has a status that is not
\* OK throws an Error whose message carries the status text of the response;
\* it never returns a value.
C17_NonOkResponseThrows ==
    (remote.kind \in {"return", "throw"} /\ remote.status # "OK") =>
        /\ remote.kind = "throw"
        /\ remote.message = "API Error: " \o remote.status

(* ------------------------------- C18 ----------------------------------- *)

\* The post in a row of the remote store's response.
C18_RemotePost(row) ==
    [ id |-> row.id, content |-> row.content, scheduledFor |-> row.scheduled_for.iso,
      status |-> row.status, error |-> row.error, url |-> row.url, image |-> row.image ]

\* The post in a record of the embedded store.
C18_LocalPost(row) ==
    [ id |-> row.id, content |-> row.content, scheduledFor |-> row.scheduledFor,
      status |-> row.status, error |-> IF "error" \in DOMAIN row THEN row.error ELSE Null,
      url |-> row.url, image |-> row.image ]

\* What a caller can tell from a value a store returned, whatever the names
\* and the encoding of the fields: the fields of a post, the identifier and
\* password of the credentials, null, or nothing.
C18_Seen(v, store) ==
    LET post(row) == IF store = "remote" THEN C18_RemotePost(row) ELSE C18_LocalPost(row)
    IN  CASE v.type = "array" ->
                [type |-> "array", items |-> [k \in DOMAIN v.items |-> post(v.items[k])]]
          [] v.type = "object" /\ "identifier" \in DOMAIN v.fields ->
                [type |-> "credentials", identifier |-> v.fields.identifier,
                 password |-> v.fields.password]
          [] v.type = "object" /\ "content" \in DOMAIN v.fields ->
                [type |-> "post", post |-> post(v.fields)]
          [] OTHER -> [type |-> v.type]

\* C18: after the same sequence of calls on an empty remote store and on an
\* empty embedded store, the last call ended the same way on both (returned or
\* threw) and returned the same posts, credentials, null or nothing.
C18_BackendsAgree ==
    (remote.kind \in {"return", "throw"}) =>
        /\ local.call.op = remote.op
        /\ local.call.kind = remote.kind
        /\ remote.kind = "return" =>
              C18_Seen(remote.value, "remote") = C18_Seen(local.call.value, "local")

(* ------------------------------- C19 ----------------------------------- *)

\* C19: the payload getPostData returns for a draft with a url has an
\* external (link) embed and no image embed, even when the draft has an image
\* too; for a draft with an image and no url it has an images embed with
\* exactly one image, whose alt is the draft's alt, or "" when the draft has
\* none; for a draft with neither it has no embed.
C19_EmbedSelection ==
    (payload.call.op = "getPostData" /\ payload.call.kind = "return") =>
        LET draft  == payload.call.arg[1]
            fields == payload.call.value.fields
        IN  IF draft.url # Undefined
            THEN /\ "embed" \in DOMAIN fields
                 /\ fields.embed.type = "app.bsky.embed.external"
                 /\ "images" \notin DOMAIN fields.embed
            ELSE IF draft.image # << >>
            THEN /\ "embed" \in DOMAIN fields
                 /\ fields.embed.type = "app.bsky.embed.images"
                 /\ Len(fields.embed.images) = 1
                 /\ fields.embed.images[1].alt =
                       (IF draft.image[1].alt = Undefined THEN "" ELSE draft.image[1].alt)
            ELSE "embed" \notin DOMAIN fields

\* A payload was built for a draft with both a url and an image.
C19_Witness ==
    /\ payload.call.op = "getPostData" /\ payload.call.kind = "return"
    /\ payload.call.arg[1].url # Undefined
    /\ payload.call.arg[1].image # << >>
    /\ payload.call.value.fields.embed.type = "app.bsky.embed.external"

(* ------------------------------- C20 ----------------------------------- *)

\* C20: a call of getPostData that read null as the stored credentials threw
\* 'No credentials set', and made no network call.
C20_NoCredentialsNoNetwork ==
    (payload.call.op = "getPostData" /\ payload.creds = JNull) =>
        /\ payload.call.kind = "throw"
        /\ payload.call.message = "No credentials set"
        /\ payload.network = << >>

\* getPostData was called for a draft with a url while no credentials were
\* stored.
C20_Witness ==
    /\ payload.call.op = "getPostData"
    /\ payload.creds = JNull
    /\ payload.call.arg[1].url # Undefined
    /\ payload.call.kind = "throw"

(* ------------------------------- C21 ----------------------------------- *)

\* C21: fetchUrlMetadata always returns and never throws: when the metadata
\* fetch rejects or gives an empty result it returns the url as uri and as
\* title, an empty description and no thumb; when the metadata was fetched
\* and the image could not be, it returns the fetched title and description
\* and no thumb.
C21_MetadataNeverThrows ==
    (payload.call.op = "fetchUrlMetadata") =>
        /\ payload.call.kind = "return"
        /\ LET url    == payload.call.arg[1]
               fields == payload.call.value.fields
           IN  /\ fields.uri = url
               /\ payload.call.status \in {"failed", "empty"} =>
                     /\ fields.title = url
                     /\ fields.description = ""
                     /\ fields.thumb = Undefined
               /\ payload.call.status = "image-failed" =>
                     /\ fields.title = "Example"
                     /\ fields.description = "Test site"
                     /\ fields.thumb = Undefined

\* fetchUrlMetadata was called and the metadata fetch rejected.
C21_Witness ==
    /\ payload.call.op = "fetchUrlMetadata"
    /\ payload.call.status = "failed"
    /\ payload.call.kind = "return"
    /\ payload.call.value.fields.title = "https://example.com"

(* ------------------------------- C22 ----------------------------------- *)

\* C22: a post carries an error only if its status is failed: no pending and
\* no published post has an error, also after two overlapping runs have both
\* written an outcome for the same post.
C22_ErrorOnlyOnFailed ==
    \A id \in DOMAIN posts :
        posts[id].error # Null => posts[id].status = "failed"

(* ------------------------------- C23 ----------------------------------- *)

\* Run r is past the publish step of post id.
C23_PastPublish(r, id) ==
    /\ id \in run[r].due
    /\ Had(r, "login", id, "ok")
    /\ ~(run[r].pc = "post" /\ run[r].batch[run[r].i].id = id)

\* C23: nothing keeps two overlapping runs apart: each run selects every
\* pending due post, and whenever two runs have selected the same post and
\* both have logged in for it, each of them has issued its own publish call
\* for it, so the post is submitted twice.
C23_OverlappingRunsBothPublish ==
    /\ \A r \in Runs : run[r].pc \notin {"idle", "select"} =>
          BatchIds(r) = run[r].due
    /\ \A id \in DOMAIN posts :
          (\A r \in Runs : C23_PastPublish(r, id)) =>
              (\A r \in Runs : PublishCalls(r, id) = 1)

\* Both runs selected post 1 and the publish call of each of them resolved.
C23_Witness ==
    /\ 1 \in DOMAIN posts
    /\ \A r \in Runs : 1 \in run[r].due /\ Had(r, "post", 1, "ok")

(* ------------------------------- C24 ----------------------------------- *)

\* The posts of the interrupted run's batch whose outcome it had not written.
C24_Unwritten ==
    {k \in DOMAIN run[1].batch : CallsFor(1, "update", run[1].batch[k].id) = {}}

\* C24: after a run was interrupted, every post whose outcome it had written
\* keeps that status; every post of its batch whose outcome it had not
\* written is still pending, with every field as the run had read it, until
\* the next run writes it; and the next run selects all of them.
C24_InterruptedRunLeavesRestPending ==
    run[1].pc = "interrupted" =>
        /\ \A k \in CallsOf(1, "update") :
              posts[run[1].log[k].id].status = run[1].log[k].res
        /\ \A k \in C24_Unwritten :
              CallsFor(2, "update", run[1].batch[k].id) = {}
                  => posts[run[1].batch[k].id] = run[1].batch[k]
        /\ run[2].pc \notin {"idle", "select"} =>
              \A k \in C24_Unwritten : run[1].batch[k].id \in run[2].due

\* The run was interrupted after it had written post 1 and before it reached
\* post 2, and the next run has selected post 2.
C24_Witness ==
    /\ run[1].pc = "interrupted"
    /\ Len(run[1].batch) = 2
    /\ CallsFor(1, "update", 1) # {}
    /\ CallsFor(1, "update", 2) = {}
    /\ run[2].due = {2}

(* ------------------------------- C25 ----------------------------------- *)

\* C25: the record a run submits for a post is built from the fields of the
\* stored post: its text is the content, it has a link embed when the post
\* has a url, an image embed when the post has an image and no url, and no
\* embed when the post has neither.
C25_SubmittedBuiltFromStoredFields ==
    \A r \in Runs : \A k \in CallsOf(r, "post") :
        \A j \in DOMAIN run[r].batch :
            run[r].batch[j].id = run[r].log[k].id =>
                LET post   == run[r].batch[j]
                    record == run[r].log[k].record
                IN  /\ record.text = post.content
                    /\ post.url # Null =>
                          /\ "embed" \in DOMAIN record
                          /\ record.embed.type = "app.bsky.embed.external"
                    /\ (post.url = Null /\ post.image # Null) =>
                          /\ "embed" \in DOMAIN record
                          /\ record.embed.type = "app.bsky.embed.images"
                    /\ (post.url = Null /\ post.image = Null) =>
                          "embed" \notin DOMAIN record

(* ------------------------------- C26 ----------------------------------- *)

\* C26: once createDatabase has returned a store, every later call of
\* createDatabase returns that same object and constructs no new one.
C26_StoreHandleSingleton ==
    [][(payload.call.op = "createDatabase" /\ payload'.call.op = "createDatabase")
          => payload'.call.value = payload.call.value]_vars

(* ------------------------------- C27 ----------------------------------- *)

\* The posts for which run r makes a publish call in this step.
C27_PublishedNow(r) ==
    IF Len(run'[r].log) = Len(run[r].log) + 1 /\ run'[r].log[Len(run'[r].log)].op = "post"
    THEN {run'[r].log[Len(run'[r].log)].id}
    ELSE {}

\* C27: with one run at a time, no post is submitted twice, in one run or
\* across runs: a publish call is made only for a post that is still pending
\* and has had no publish call in this run; when the run responds, every post
\* it made a publish call for has left pending; and a post that has left
\* pending never is pending again.
C27_AtMostOnceSingleWorker ==
    [][\A r \in Runs :
          /\ \A id \in C27_PublishedNow(r) :
                /\ id \in DOMAIN posts
                /\ posts[id].status = "pending"
                /\ PublishCalls(r, id) = 0
          /\ (run[r].pc = "respond" /\ run'[r].pc = "done") =>
                \A k \in CallsOf(r, "post") :
                    posts[run[r].log[k].id].status \in {"published", "failed"}
          /\ \A id \in DOMAIN posts :
                posts[id].status # "pending" =>
                    id \in DOMAIN posts' /\ posts'[id].status # "pending"]_vars

\* A later run has left out post 1, which an earlier run published: its
\* time has come, and the run did not select it.
C27_Witness ==
    /\ run[1].pc = "done"
    /\ run[1].response = 200
    /\ 1 \in DOMAIN posts
    /\ posts[1].status = "published"
    /\ posts[1].scheduled_for <= now
    /\ 1 \notin run[1].due

(* ------------------------------- C28 ----------------------------------- *)

\* C28: where credentials are stored and are only ever replaced, every reader
\* finds a credential record: no run reads an empty credentials table,
\* getCredentials never returns null, and no post is failed for the lack of
\* credentials.
C28_ReplacementAtomicForReaders ==
    /\ \A r \in Runs : \A k \in CallsOf(r, "creds") : run[r].log[k].res = "some"
    /\ (remote.op = "getCredentials" /\ remote.kind = "return") => remote.value # JNull
    /\ \A id \in DOMAIN posts :
          posts[id].status = "failed" => posts[id].error # TypeErrorMessage

(* ------------------------------- C29 ----------------------------------- *)

\* The fields of a row a run has no business with.
C29_Kept(post) == [post EXCEPT !.status = Null, !.error = Null]

\* C29: a step of a run creates no post and deletes none, leaves every field
\* of every post but status and error as it is, writes status and error only
\* of posts the run selected, and leaves the credentials as they are.
C29_RunWritesOnlyStatusAndError ==
    [][ run' # run =>
          /\ DOMAIN posts' = DOMAIN posts
          /\ nextId' = nextId
          /\ credentials' = credentials
          /\ \A id \in DOMAIN posts :
                /\ C29_Kept(posts'[id]) = C29_Kept(posts[id])
                /\ posts'[id] # posts[id] =>
                      \E r \in Runs : run'[r] # run[r] /\ id \in run[r].due ]_vars

\* A run has written the status of a post it selected, next to a post it did
\* not select.
C29_Witness ==
    \E r \in Runs : \E id, other \in DOMAIN posts :
        /\ id \in run[r].due
        /\ posts[id].status # "pending"
        /\ Had(r, "update", id, posts[id].status)
        /\ other \notin run[r].due

(* ------------------------------- C30 ----------------------------------- *)

\* C30: with no secret configured, every request to the cron endpoint,
\* whatever its Authorization header, is answered 401 and has read nothing,
\* written nothing and published nothing.
C30_UnsetSecretRejectsAll ==
    cronSecret = Undefined =>
        \A r \in Runs :
            run[r].pc # "idle" =>
                /\ run[r].pc = "done"
                /\ run[r].response = 401
                /\ run[r].log = << >>

====
